---- MODULE Spec2Model ----
(***************************************************************************)
(* Model of the tracker's data store (src/src/store/dataStore.ts): the     *)
(* in-memory collections, the optional Supabase mirror and every async     *)
(* method of DataStore.  JavaScript runs one task at a time, so each piece *)
(* of a method between two awaits is one atomic action; an await on a      *)
(* Supabase request parks the call in `calls` until its response arrives.  *)
(***************************************************************************)
EXTENDS Integers, Sequences, FiniteSets, TLC

VARIABLES
    activities,    \* DataStore.activities : Activity[]
    logs,          \* DataStore.logs : Log[]
    notes,         \* DataStore.notes : Note[]
    startDate,     \* DataStore.startDate : Date (in ticks)
    initialized,   \* DataStore.initialized
    useSupabase,   \* DataStore.useSupabase
    supabase,      \* lib/supabase.ts: TRUE iff a client was created
    now,           \* the wall clock, in ticks
    dbActivities,  \* remote table activities
    dbLogs,        \* remote table logs
    dbNotes,       \* remote table notes
    calls,         \* store calls suspended on a remote request
    lastReturn,    \* what the last completed store call returned and logged
    opsLeft,       \* store calls the environment may still start
    initCompleted, \* history: some initialize() call has run to its end
    lateInit,      \* history: initialize() was called after one had completed
    watch,         \* history: the (activity id, date) pair whose toggles are counted
    toggles,       \* history: toggleLog calls completed for `watch` since it had no Log
    tz,            \* the offset of local time from UTC, in ticks
    pubActivities, \* useTracker: the activities state
    pubLogs,       \* useTracker: the logs state
    pubNotes,      \* useTracker: the notes state
    isLoading,     \* useTracker: the isLoading state
    viewStartDate, \* useTracker: the viewStartDate state (in ticks)
    held,          \* history: every order_index an Activity of the store has had
    navFrom        \* history: viewStartDate when goBack or goForward was last called

colVars == <<activities, logs, notes>>
flagVars == <<startDate, initialized, useSupabase>>
storeVars == <<activities, logs, notes, startDate, initialized, useSupabase>>
dbVars == <<dbActivities, dbLogs, dbNotes>>
envVars == <<supabase, now, watch, tz>>
histVars == <<initCompleted, lateInit, toggles>>
vars == <<activities, logs, notes, startDate, initialized, useSupabase,
          supabase, now, dbActivities, dbLogs, dbNotes, calls, lastReturn,
          opsLeft, initCompleted, lateInit, watch, toggles,
          tz, pubActivities, pubLogs, pubNotes, isLoading, viewStartDate, held,
          navFrom>>
\* the view-model's state, and the history kept next to it
pubVars == <<pubActivities, pubLogs, pubNotes, isLoading>>
viewVars == <<pubActivities, pubLogs, pubNotes, isLoading, viewStartDate, held,
              navFrom>>

---------------------------------------------------------------------------
\* Bounds of the model.

\* calls that may be suspended on a remote request at the same time
MaxCalls == 2
\* store calls made in one session
MaxOps == 3
\* activities the store may hold before addActivity is no longer called
MaxActivities == 3
\* ticks of the clock per calendar day
DayLen == 2
\* toggleLog calls counted for the watched pair
MaxToggles == 3

\* the calendar day on which the session runs
TodayDay == 40
\* subDays(new Date(), 30)
HistoryDays == 30
\* const VISIBLE_DAYS = 7
VISIBLE_DAYS == 7

---------------------------------------------------------------------------
\* Values.

Null == [null |-> TRUE]
Void == [void |-> TRUE]
Idle == [op |-> "idle"]
NoReturn == [op |-> "none", args |-> <<>>, val |-> Void, err |-> FALSE]
NoWatch == <<>>

Slots == 1..MaxCalls

\* format(date, "yyyy-MM-dd"): the calendar day a tick falls on
FormatDay(t) == t \div DayLen
\* subDays(date, n)
SubDays(t, n) == t - n * DayLen
\* addDays(date, n)
AddDays(t, n) == t + n * DayLen
\* startOfDay(date)
StartOfDay(t) == (t \div DayLen) * DayLen
\* new Date("yyyy-MM-dd"): midnight UTC of the day, on the local clock
ParseDay(d) == d * DayLen + tz
\* the offsets from UTC a session may run under: west of, at, east of Greenwich
TzOffsets == {-1, 0, 1}

Today == FormatDay(now)
\* the dates calls are made for: today and yesterday
OpDates == {Today, Today - 1}

\* sampleActivities, cut to the first of its seven names, and the days ago
\* for which a sample log is drawn, cut to the first of the thirty: the
\* draws of Math.random() multiply the states by 2 for every activity and day
SampleActivityNames == <<  <<"Exercise">>  >>
NumSampleActivities == Len(SampleActivityNames)
SampleDaysAgo == {0}
SampleNoteSpecs ==
    <<  [daysAgo |-> 0, text |-> <<"Feeling productive today!">>],
        [daysAgo |-> 2, text |-> <<"Started a new project">>],
        [daysAgo |-> 5, text |-> <<"Great workout session">>]  >>

\* names and texts are sequences of tokens: " " is one blank, any other token
\* a run of non-blank characters
NameInputs == { <<"Run">> }
TextInputs == { <<>>, <<" ">>, <<"x">> }
UnknownId == 0

---------------------------------------------------------------------------
\* Helpers over arrays.

SeqToSet(s) == {s[i] : i \in 1..Len(s)}

MinOf(S) == CHOOSE x \in S : \A y \in S : x <= y
MaxOf(S) == CHOOSE x \in S : \A y \in S : x >= y

\* the index Array.prototype.find stops at, given the indices of the elements
\* that pass its test: the first of them, or 0
FindIndex(idx) == IF idx = {} THEN 0 ELSE MinOf(idx)

\* Array.prototype.find: the first element of s that passes, or Null
Find(s, idx) == IF idx = {} THEN Null ELSE s[FindIndex(idx)]

\* String.prototype.trim: the text without its leading and trailing blanks
RECURSIVE TrimStart(_)
TrimStart(t) == IF t # <<>> /\ Head(t) = " " THEN TrimStart(Tail(t)) ELSE t
RECURSIVE TrimEnd(_)
TrimEnd(t) == IF t # <<>> /\ t[Len(t)] = " " THEN TrimEnd(SubSeq(t, 1, Len(t) - 1)) ELSE t
\* a trim of the leading blanks alone
TrimLeading(t) == TrimStart(t)
\* String.prototype.trim()
Trim(t) == TrimEnd(TrimStart(t))
\* a test for the empty text alone, without the trim
IsEmptyText(t) == t = <<>>
\* !text.trim()
IsBlank(t) == Trim(t) = <<>>

\* the sequences that list every element of S exactly once
Perms(S) ==
    {s \in [1..Cardinality(S) -> S] : \A i, j \in 1..Cardinality(S) : s[i] = s[j] => i = j}

\* uuidv4() / gen_random_uuid(): an identifier that is in use nowhere
MinNotIn(used) ==
    CHOOSE i \in 1..(Cardinality(used) + 1) :
        i \notin used /\ \A j \in 1..(i - 1) : j \in used

RECURSIVE FreshIds(_, _)
FreshIds(used, n) ==
    IF n = 0 THEN <<>>
    ELSE LET i == MinNotIn(used) IN <<i>> \o FreshIds(used \cup {i}, n - 1)

PendingCalls == {calls[s] : s \in {t \in Slots : calls[t] # Idle}}
AllIdle == \A s \in Slots : calls[s] = Idle

UsedActivityIds ==
    {a.id : a \in SeqToSet(activities)} \cup {r.id : r \in dbActivities}
        \cup {l.activity_id : l \in SeqToSet(logs)} \cup {r.activity_id : r \in dbLogs}
        \cup {c.ent.id : c \in {x \in PendingCalls : x.op = "addActivity"}}
        \cup {c.a : c \in {x \in PendingCalls : x.op \in {"toggleLog", "deleteActivity", "editActivity"}}}
        \cup {UnknownId}

UsedLogIds ==
    {l.id : l \in SeqToSet(logs)} \cup {r.id : r \in dbLogs}
        \cup {c.ent.id : c \in {x \in PendingCalls : x.op = "toggleLog"}}

UsedNoteIds ==
    {n.id : n \in SeqToSet(notes)} \cup {r.id : r \in dbNotes}
        \cup {c.ent.id : c \in {x \in PendingCalls : x.op \in {"saveNote", "deleteNote"}}}

---------------------------------------------------------------------------
\* The remote tables (supabase-schema.sql).

\* UNIQUE(activity_id, logged_date), REFERENCES activities(id)
DbLogInsertAllowed(a, d) ==
    /\ \E r \in dbActivities : r.id = a
    /\ ~ \E r \in dbLogs : r.activity_id = a /\ r.logged_date = d

\* logged_date DATE NOT NULL UNIQUE
DbNoteInsertAllowed(d) ==
    ~ \E r \in dbNotes : r.logged_date = d

\* .order("order_index"): ascending, rows of equal order_index in any order
OrderedByIndex(s) ==
    \A i, j \in 1..Len(s) : i < j => s[i].order_index <= s[j].order_index

\* the rows the remote tables may hold when the session starts: no activity,
\* or one activity with or without a log for today; no note, or one for today
DbInitActivities ==
    {[id |-> 1, name |-> <<"Remote">>, created_at |-> 0, order_index |-> 0]}

DbInitLogs ==
    {[id |-> 1, activity_id |-> 1, logged_date |-> TodayDay, created_at |-> 0]}

DbInitNotes ==
    {[id |-> 1, logged_date |-> TodayDay, text |-> <<"remote note">>,
      created_at |-> 0, updated_at |-> 0]}

---------------------------------------------------------------------------
\* constructor, and the environment the session starts in

\* the store as constructed, at tick t, with a budget of n calls, while the
\* remote table of logs holds some of remoteLogs
ConstructedWith(t, n, remoteLogs) ==
    /\ activities = <<>>
    /\ logs = <<>>
    /\ notes = <<>>
    /\ now = t
    /\ startDate = SubDays(now, HistoryDays)
    /\ initialized = FALSE
    /\ supabase \in BOOLEAN
    /\ useSupabase = supabase
    /\ dbActivities \in SUBSET DbInitActivities
    /\ dbLogs \in SUBSET {l \in remoteLogs : \E a \in dbActivities : a.id = l.activity_id}
    /\ dbNotes \in SUBSET DbInitNotes
    /\ (~supabase) => (dbActivities = {} /\ dbLogs = {} /\ dbNotes = {})
    /\ calls = [s \in Slots |-> Idle]
    /\ lastReturn = NoReturn
    /\ opsLeft = n
    /\ initCompleted = FALSE
    /\ lateInit = FALSE
    /\ pubActivities = <<>>
    /\ pubLogs = <<>>
    /\ pubNotes = <<>>
    /\ isLoading = TRUE
    /\ viewStartDate = SubDays(StartOfDay(now), VISIBLE_DAYS - 1)
    /\ held = {}
    /\ navFrom = viewStartDate

\* the store as constructed, at tick t, with a budget of n calls
Constructed(t, n) == ConstructedWith(t, n, DbInitLogs)

Init ==
    /\ Constructed(TodayDay * DayLen, MaxOps)
    /\ watch = NoWatch
    /\ toggles = -1
    /\ tz = 0

---------------------------------------------------------------------------
\* Starting, suspending and resuming a call.

Begin == opsLeft > 0 /\ opsLeft' = opsLeft - 1
FreeSlot == MinOf({s \in Slots : calls[s] = Idle})
HasFreeSlot == \E s \in Slots : calls[s] = Idle
Suspend(c) == calls' = [calls EXCEPT ![FreeSlot] = c]
Finish(s) == calls' = [calls EXCEPT ![s] = Idle]
Return(op, args, val, err) ==
    lastReturn' = [op |-> op, args |-> args, val |-> val, err |-> err]
\* a store that consults the client alone, not the flag
RemoteIgnoringFlag == supabase
\* this.useSupabase && supabase
Remote == useSupabase /\ supabase

---------------------------------------------------------------------------
\* initializeSampleData, applied to the collections as they are

SampleActivities(acts) ==
    LET ids == FreshIds(UsedActivityIds, NumSampleActivities)
    IN  acts \o [i \in 1..NumSampleActivities |->
                    [id |-> ids[i], name |-> SampleActivityNames[i],
                     created_at |-> now, order_index |-> i - 1]]

\* pick: the (activity position, days ago) pairs for which Math.random() > 0.6
SampleLogs(acts, lgs, pick) ==
    LET n == Cardinality(SampleDaysAgo)
        all == [k \in 1..(Len(acts) * n) |-> << ((k - 1) \div n) + 1, (k - 1) % n >>]
        sel == SelectSeq(all, LAMBDA p : p \in pick)
        ids == FreshIds(UsedLogIds, Len(sel))
    IN  lgs \o [k \in 1..Len(sel) |->
                    [id |-> ids[k], activity_id |-> acts[sel[k][1]].id,
                     logged_date |-> FormatDay(SubDays(now, sel[k][2])),
                     created_at |-> now]]

SampleNotes(nts) ==
    LET ids == FreshIds(UsedNoteIds, Len(SampleNoteSpecs))
    IN  nts \o [k \in 1..Len(SampleNoteSpecs) |->
                    [id |-> ids[k],
                     logged_date |-> FormatDay(SubDays(now, SampleNoteSpecs[k].daysAgo)),
                     text |-> SampleNoteSpecs[k].text,
                     created_at |-> now, updated_at |-> now]]

InitializeSampleData ==
    LET acts == SampleActivities(activities)
    IN  \E pick \in SUBSET ((1..Len(acts)) \X SampleDaysAgo) :
            /\ activities' = acts
            /\ logs' = SampleLogs(acts, logs, pick)
            /\ notes' = SampleNotes(notes)

---------------------------------------------------------------------------
\* initialize() and loadFromSupabase()

\* an initialize() without the guard on `initialized`
NeverInitialized == FALSE
\* if (this.initialized) return;
AlreadyInitialized == initialized

\* initialize() up to its first await, or to its end when it does not await
StartInitialize ==
    /\ Begin
    /\ lateInit' = (lateInit \/ initCompleted)
    /\ IF AlreadyInitialized
       THEN /\ Return("initialize", <<>>, Void, FALSE)
            /\ UNCHANGED <<storeVars, envVars, dbVars, calls, initCompleted, toggles>>
       ELSE IF Remote
       THEN /\ HasFreeSlot
            /\ Suspend([op |-> "initialize", pc |-> "activities"])
            /\ UNCHANGED <<storeVars, envVars, dbVars, lastReturn, initCompleted, toggles>>
       ELSE /\ InitializeSampleData
            /\ initialized' = TRUE
            /\ initCompleted' = TRUE
            /\ Return("initialize", <<>>, Void, FALSE)
            /\ UNCHANGED <<startDate, useSupabase, envVars, dbVars, calls, toggles>>

\* the catch block of initialize() and the fallback after it
LoadFailed(s) ==
    /\ useSupabase' = FALSE
    /\ InitializeSampleData
    /\ initialized' = TRUE
    /\ initCompleted' = TRUE
    /\ Finish(s)
    /\ Return("initialize", <<>>, Void, TRUE)
    /\ UNCHANGED <<startDate, envVars, dbVars, opsLeft, lateInit, toggles>>

\* the response to select("*").order("order_index") on activities
LoadActivities(s) ==
    /\ calls[s] = [op |-> "initialize", pc |-> "activities"]
    /\ \/ \E rows \in {p \in Perms(dbActivities) : OrderedByIndex(p)} :
            /\ activities' = [i \in 1..Len(rows) |->
                    [id |-> rows[i].id, name |-> rows[i].name,
                     created_at |-> rows[i].created_at,
                     order_index |-> rows[i].order_index]]
            /\ calls' = [calls EXCEPT ![s] = [op |-> "initialize", pc |-> "logs"]]
            /\ UNCHANGED <<logs, notes, flagVars, envVars, dbVars, lastReturn,
                           opsLeft, histVars>>
       \/ LoadFailed(s)

\* the response to select("*") on logs
LoadLogs(s) ==
    /\ calls[s] = [op |-> "initialize", pc |-> "logs"]
    /\ \/ \E rows \in Perms(dbLogs) :
            /\ logs' = [i \in 1..Len(rows) |->
                    [id |-> rows[i].id, activity_id |-> rows[i].activity_id,
                     logged_date |-> rows[i].logged_date,
                     created_at |-> rows[i].created_at]]
            /\ calls' = [calls EXCEPT ![s] = [op |-> "initialize", pc |-> "notes"]]
            /\ UNCHANGED <<activities, notes, flagVars, envVars, dbVars, lastReturn,
                           opsLeft, histVars>>
       \/ LoadFailed(s)

\* Math.min over the logs' dates
EarliestLog(lgs) == MinOf({ParseDay(lgs[i].logged_date) : i \in 1..Len(lgs)})

\* the response to select("*") on notes, and the rest of initialize()
LoadNotes(s) ==
    /\ calls[s] = [op |-> "initialize", pc |-> "notes"]
    /\ \/ \E rows \in Perms(dbNotes) :
            /\ notes' = [i \in 1..Len(rows) |->
                    [id |-> rows[i].id, logged_date |-> rows[i].logged_date,
                     text |-> rows[i].text, created_at |-> rows[i].created_at,
                     updated_at |-> rows[i].updated_at]]
            /\ startDate' = IF Len(logs) > 0 THEN EarliestLog(logs) ELSE startDate
            /\ initialized' = TRUE
            /\ initCompleted' = TRUE
            /\ Finish(s)
            /\ Return("initialize", <<>>, Void, FALSE)
            /\ UNCHANGED <<activities, logs, useSupabase, envVars, dbVars, opsLeft,
                           lateInit, toggles>>
       \/ LoadFailed(s)

---------------------------------------------------------------------------
\* The mutating methods.  The presentation layer shows "Loading..." until
\* initialize() has returned, so it calls them only once `initialized` holds.

\* a row as the remote store returns it, with the id and timestamp it assigned
Adopt(ent, id) == [ent EXCEPT !.id = id, !.created_at = now]

\* a call that keeps the identifier and stamp it made up before the request
KeepProvisional(newEntity, data) == newEntity
\* newX.id = data.id; newX.created_at = new Date(data.created_at)
Adopted(newEntity, data) ==
    [newEntity EXCEPT !.id = data.id, !.created_at = data.created_at]
\* the same for a Note, with newNote.updated_at = new Date(data.updated_at)
AdoptedNote(newNote, data) ==
    [Adopted(newNote, data) EXCEPT !.updated_at = data.updated_at]

\* the history of the watched pair: a toggleLog(a, d) call has completed;
\* hadLog tells whether it found a Log for the pair
Counted(a, d, hadLog) ==
    toggles' = IF watch # <<a, d>> THEN toggles
               ELSE IF toggles = -1 THEN (IF hadLog THEN -1 ELSE 1)
               ELSE toggles + 1

\* ---- addActivity(name)

\* Math.max(...this.activities.map((a) => a.order_index), -1) + 1
NextOrderIndex(acts) == MaxOf({acts[i].order_index : i \in 1..Len(acts)} \cup {-1}) + 1

\* this.activities.push(newActivity), reached whether or not the insert failed
ActivitiesAfterAdd(acts, newActivity, error) == Append(acts, newActivity)

PendingAdds == Cardinality({s \in Slots : calls[s] # Idle /\ calls[s].op = "addActivity"})

StartAddActivity(name) ==
    /\ initialized
    /\ Begin
    /\ Len(activities) + PendingAdds < MaxActivities
    /\ LET newActivity == [id |-> MinNotIn(UsedActivityIds), name |-> name,
                           created_at |-> now,
                           order_index |-> NextOrderIndex(activities)]
       IN  IF Remote
           THEN /\ HasFreeSlot
                /\ Suspend([op |-> "addActivity", ent |-> newActivity])
                /\ UNCHANGED <<storeVars, envVars, dbVars, lastReturn, histVars>>
           ELSE /\ activities' = ActivitiesAfterAdd(activities, newActivity, FALSE)
                /\ Return("addActivity", <<name>>, newActivity, FALSE)
                /\ UNCHANGED <<logs, notes, flagVars, envVars, dbVars, calls, histVars>>

\* the response to the insert into activities
ResumeAddActivity(s) ==
    /\ calls[s] # Idle
    /\ calls[s].op = "addActivity"
    /\ LET ent == calls[s].ent
           data == Adopt(ent, MinNotIn(UsedActivityIds))
       IN  \/ /\ dbActivities' = dbActivities \cup {data}
              /\ activities' = ActivitiesAfterAdd(activities, Adopted(ent, data), FALSE)
              /\ Return("addActivity", <<ent.name>>, Adopted(ent, data), FALSE)
              /\ UNCHANGED <<dbLogs, dbNotes>>
           \/ /\ activities' = ActivitiesAfterAdd(activities, ent, TRUE)
              /\ Return("addActivity", <<ent.name>>, ent, TRUE)
              /\ UNCHANGED dbVars
    /\ Finish(s)
    /\ UNCHANGED <<logs, notes, flagVars, envVars, opsLeft, histVars>>

\* ---- toggleLog(activityId, date)

\* a lookup that matches on the activity alone
GetLogForActivity(lgs, a, d) ==
    Find(lgs, {i \in 1..Len(lgs) : lgs[i].activity_id = a})
\* getLogForActivityAndDate(activityId, date)
GetLogForActivityAndDate(lgs, a, d) ==
    Find(lgs, {i \in 1..Len(lgs) : lgs[i].activity_id = a /\ lgs[i].logged_date = d})

\* this.logs.filter((log) => log.id !== existingLog.id)
LogsAfterToggleOff(lgs, existingLog, error) ==
    SelectSeq(lgs, LAMBDA l : l.id # existingLog.id)

\* a toggle-on that is rolled back when the insert fails
LogsAfterToggleOnRolledBack(lgs, newLog, error) == IF error THEN lgs ELSE Append(lgs, newLog)
\* this.logs.push(newLog)
LogsAfterToggleOn(lgs, newLog, error) == Append(lgs, newLog)

StartToggleLog(a, d) ==
    /\ initialized
    /\ Begin
    /\ (watch = <<a, d>>) => toggles < MaxToggles
    /\ LET existingLog == GetLogForActivityAndDate(logs, a, d)
           newLog == [id |-> MinNotIn(UsedLogIds), activity_id |-> a,
                      logged_date |-> d, created_at |-> now]
       IN  IF Remote
           THEN /\ HasFreeSlot
                /\ Suspend([op |-> "toggleLog", a |-> a, d |-> d,
                            pc |-> IF existingLog # Null THEN "delete" ELSE "insert",
                            ent |-> IF existingLog # Null THEN existingLog ELSE newLog])
                /\ UNCHANGED <<storeVars, envVars, dbVars, lastReturn, histVars>>
           ELSE /\ IF existingLog # Null
                   THEN /\ logs' = LogsAfterToggleOff(logs, existingLog, FALSE)
                        /\ Return("toggleLog", <<a, d>>, Null, FALSE)
                   ELSE /\ logs' = LogsAfterToggleOn(logs, newLog, FALSE)
                        /\ Return("toggleLog", <<a, d>>, newLog, FALSE)
                /\ Counted(a, d, existingLog # Null)
                /\ UNCHANGED <<activities, notes, flagVars, envVars, dbVars, calls,
                               initCompleted, lateInit>>

\* the response to the delete from, or the insert into, logs
ResumeToggleLog(s) ==
    /\ calls[s] # Idle
    /\ calls[s].op = "toggleLog"
    /\ LET c == calls[s]
           data == Adopt(c.ent, MinNotIn(UsedLogIds))
       IN  /\ \/ /\ c.pc = "delete"
                 /\ dbLogs' = {r \in dbLogs : r.id # c.ent.id}
                 /\ logs' = LogsAfterToggleOff(logs, c.ent, FALSE)
                 /\ Return("toggleLog", <<c.a, c.d>>, Null, FALSE)
              \/ /\ c.pc = "delete"
                 /\ dbLogs' = dbLogs
                 /\ logs' = LogsAfterToggleOff(logs, c.ent, TRUE)
                 /\ Return("toggleLog", <<c.a, c.d>>, Null, TRUE)
              \/ /\ c.pc = "insert"
                 /\ DbLogInsertAllowed(c.a, c.d)
                 /\ dbLogs' = dbLogs \cup {data}
                 /\ logs' = LogsAfterToggleOn(logs, Adopted(c.ent, data), FALSE)
                 /\ Return("toggleLog", <<c.a, c.d>>, Adopted(c.ent, data), FALSE)
              \/ /\ c.pc = "insert"
                 /\ dbLogs' = dbLogs
                 /\ logs' = LogsAfterToggleOn(logs, c.ent, TRUE)
                 /\ Return("toggleLog", <<c.a, c.d>>, c.ent, TRUE)
           /\ Counted(c.a, c.d, c.pc = "delete")
    /\ Finish(s)
    /\ UNCHANGED <<activities, notes, flagVars, envVars, dbActivities, dbNotes,
                   opsLeft, initCompleted, lateInit>>

\* ---- saveNote(date, text)

\* the index of the Note getNoteForDate(date) returns, or 0
NoteIndexForDate(nts, d) == FindIndex({i \in 1..Len(nts) : nts[i].logged_date = d})

\* an update that stamps created_at as well
NotesAfterUpdateRestamped(nts, i, text) ==
    [nts EXCEPT ![i] = [@ EXCEPT !.text = text, !.updated_at = now, !.created_at = now]]
\* existingNote.text = text; existingNote.updated_at = new Date()
NotesAfterUpdate(nts, i, text) ==
    [nts EXCEPT ![i] = [@ EXCEPT !.text = text, !.updated_at = now]]

\* a create that drops a Note whose text is blank
NotesAfterCreateNonBlank(nts, newNote, error) ==
    IF IsBlank(newNote.text) THEN nts ELSE Append(nts, newNote)
\* this.notes.push(newNote)
NotesAfterCreate(nts, newNote, error) == Append(nts, newNote)

StartSaveNote(d, text) ==
    /\ initialized
    /\ Begin
    /\ LET i == NoteIndexForDate(notes, d)
           newNote == [id |-> MinNotIn(UsedNoteIds), logged_date |-> d, text |-> text,
                       created_at |-> now, updated_at |-> now]
       IN  IF i # 0
           THEN /\ notes' = NotesAfterUpdate(notes, i, text)
                /\ IF Remote
                   THEN /\ HasFreeSlot
                        /\ Suspend([op |-> "saveNote", d |-> d, text |-> text,
                                    pc |-> "update", ent |-> notes'[i]])
                        /\ UNCHANGED lastReturn
                   ELSE /\ Return("saveNote", <<d, text>>, notes'[i], FALSE)
                        /\ UNCHANGED calls
           ELSE IF Remote
           THEN /\ HasFreeSlot
                /\ Suspend([op |-> "saveNote", d |-> d, text |-> text,
                            pc |-> "insert", ent |-> newNote])
                /\ UNCHANGED <<notes, lastReturn>>
           ELSE /\ notes' = NotesAfterCreate(notes, newNote, FALSE)
                /\ Return("saveNote", <<d, text>>, newNote, FALSE)
                /\ UNCHANGED calls
    /\ UNCHANGED <<activities, logs, flagVars, envVars, dbVars, histVars>>

\* existingNote as the caller sees it when the update returns: the object is
\* shared with the notes array for as long as it is in it
NoteObject(nts, ent) ==
    LET i == FindIndex({k \in 1..Len(nts) : nts[k].id = ent.id}) IN IF i = 0 THEN ent ELSE nts[i]

\* the response to the update of, or the insert into, notes
ResumeSaveNote(s) ==
    /\ calls[s] # Idle
    /\ calls[s].op = "saveNote"
    /\ LET c == calls[s]
           data == [Adopt(c.ent, MinNotIn(UsedNoteIds)) EXCEPT !.updated_at = now]
       IN  \/ /\ c.pc = "update"
              /\ dbNotes' = {IF r.id = c.ent.id
                             THEN [r EXCEPT !.text = c.text,
                                            !.updated_at = c.ent.updated_at]
                             ELSE r : r \in dbNotes}
              /\ notes' = notes
              /\ Return("saveNote", <<c.d, c.text>>, NoteObject(notes, c.ent), FALSE)
           \/ /\ c.pc = "update"
              /\ dbNotes' = dbNotes
              /\ notes' = notes
              /\ Return("saveNote", <<c.d, c.text>>, NoteObject(notes, c.ent), TRUE)
           \/ /\ c.pc = "insert"
              /\ DbNoteInsertAllowed(c.d)
              /\ dbNotes' = dbNotes \cup {data}
              /\ notes' = NotesAfterCreate(notes, AdoptedNote(c.ent, data), FALSE)
              /\ Return("saveNote", <<c.d, c.text>>, AdoptedNote(c.ent, data), FALSE)
           \/ /\ c.pc = "insert"
              /\ dbNotes' = dbNotes
              /\ notes' = NotesAfterCreate(notes, c.ent, TRUE)
              /\ Return("saveNote", <<c.d, c.text>>, c.ent, TRUE)
    /\ Finish(s)
    /\ UNCHANGED <<activities, logs, flagVars, envVars, dbActivities, dbLogs,
                   opsLeft, histVars>>

\* ---- deleteNote(date)

\* this.notes.filter((note) => note.logged_date !== date)
NotesAfterDelete(nts, d, error) == SelectSeq(nts, LAMBDA n : n.logged_date # d)

StartDeleteNote(d) ==
    /\ initialized
    /\ Begin
    /\ LET i == NoteIndexForDate(notes, d)
       IN  IF i # 0 /\ Remote
           THEN /\ HasFreeSlot
                /\ Suspend([op |-> "deleteNote", d |-> d, ent |-> notes[i]])
                /\ UNCHANGED <<notes, lastReturn>>
           ELSE /\ notes' = NotesAfterDelete(notes, d, FALSE)
                /\ Return("deleteNote", <<d>>, Void, FALSE)
                /\ UNCHANGED calls
    /\ UNCHANGED <<activities, logs, flagVars, envVars, dbVars, histVars>>

\* the response to the delete from notes
ResumeDeleteNote(s) ==
    /\ calls[s] # Idle
    /\ calls[s].op = "deleteNote"
    /\ LET c == calls[s]
       IN  \/ /\ dbNotes' = {r \in dbNotes : r.id # c.ent.id}
              /\ notes' = NotesAfterDelete(notes, c.d, FALSE)
              /\ Return("deleteNote", <<c.d>>, Void, FALSE)
           \/ /\ dbNotes' = dbNotes
              /\ notes' = NotesAfterDelete(notes, c.d, TRUE)
              /\ Return("deleteNote", <<c.d>>, Void, TRUE)
    /\ Finish(s)
    /\ UNCHANGED <<activities, logs, flagVars, envVars, dbActivities, dbLogs,
                   opsLeft, histVars>>

\* ---- deleteActivity(activityId)

\* this.activities.filter((a) => a.id !== activityId)
ActivitiesAfterDelete(acts, a, error) == SelectSeq(acts, LAMBDA x : x.id # a)

\* a cascade that is skipped when the remote delete fails
LogsKeptOnError(lgs, a, error) ==
    IF error THEN lgs ELSE SelectSeq(lgs, LAMBDA l : l.activity_id # a)
\* this.logs.filter((l) => l.activity_id !== activityId)
LogsAfterDeleteActivity(lgs, a, error) == SelectSeq(lgs, LAMBDA l : l.activity_id # a)

StartDeleteActivity(a) ==
    /\ initialized
    /\ Begin
    /\ IF Remote
       THEN /\ HasFreeSlot
            /\ Suspend([op |-> "deleteActivity", a |-> a])
            /\ UNCHANGED <<activities, logs, lastReturn>>
       ELSE /\ activities' = ActivitiesAfterDelete(activities, a, FALSE)
            /\ logs' = LogsAfterDeleteActivity(logs, a, FALSE)
            /\ Return("deleteActivity", <<a>>, Void, FALSE)
            /\ UNCHANGED calls
    /\ UNCHANGED <<notes, flagVars, envVars, dbVars, histVars>>

\* the response to the delete from activities (ON DELETE CASCADE on logs)
ResumeDeleteActivity(s) ==
    /\ calls[s] # Idle
    /\ calls[s].op = "deleteActivity"
    /\ LET a == calls[s].a
       IN  \/ /\ dbActivities' = {r \in dbActivities : r.id # a}
              /\ dbLogs' = {r \in dbLogs : r.activity_id # a}
              /\ activities' = ActivitiesAfterDelete(activities, a, FALSE)
              /\ logs' = LogsAfterDeleteActivity(logs, a, FALSE)
              /\ Return("deleteActivity", <<a>>, Void, FALSE)
           \/ /\ UNCHANGED <<dbActivities, dbLogs>>
              /\ activities' = ActivitiesAfterDelete(activities, a, TRUE)
              /\ logs' = LogsAfterDeleteActivity(logs, a, TRUE)
              /\ Return("deleteActivity", <<a>>, Void, TRUE)
    /\ Finish(s)
    /\ UNCHANGED <<notes, flagVars, envVars, dbNotes, opsLeft, histVars>>

\* ---- editActivity(activityId, newName)

\* a rename that also stamps the activity anew
ActivitiesAfterEditRestamped(acts, i, newName) ==
    [acts EXCEPT ![i] = [@ EXCEPT !.name = newName, !.created_at = now + 1]]
\* activity.name = newName
ActivitiesAfterEdit(acts, i, newName) == [acts EXCEPT ![i] = [@ EXCEPT !.name = newName]]

StartEditActivity(a, newName) ==
    /\ initialized
    /\ Begin
    /\ LET i == FindIndex({k \in 1..Len(activities) : activities[k].id = a})
       IN  IF i = 0
           THEN /\ Return("editActivity", <<a, newName>>, Void, FALSE)
                /\ UNCHANGED <<activities, calls>>
           ELSE /\ activities' = ActivitiesAfterEdit(activities, i, newName)
                /\ IF Remote
                   THEN /\ HasFreeSlot
                        /\ Suspend([op |-> "editActivity", a |-> a, name |-> newName])
                        /\ UNCHANGED lastReturn
                   ELSE /\ Return("editActivity", <<a, newName>>, Void, FALSE)
                        /\ UNCHANGED calls
    /\ UNCHANGED <<logs, notes, flagVars, envVars, dbVars, histVars>>

\* the response to the update of activities
ResumeEditActivity(s) ==
    /\ calls[s] # Idle
    /\ calls[s].op = "editActivity"
    /\ LET c == calls[s]
       IN  \/ /\ dbActivities' = {IF r.id = c.a THEN [r EXCEPT !.name = c.name] ELSE r :
                                    r \in dbActivities}
              /\ Return("editActivity", <<c.a, c.name>>, Void, FALSE)
           \/ /\ dbActivities' = dbActivities
              /\ Return("editActivity", <<c.a, c.name>>, Void, TRUE)
    /\ Finish(s)
    /\ UNCHANGED <<colVars, flagVars, envVars, dbLogs, dbNotes, opsLeft, histVars>>

---------------------------------------------------------------------------
\* The store under any interleaving of its calls.

ActivityIds == {activities[i].id : i \in 1..Len(activities)}

Next ==
    \/ StartInitialize /\ UNCHANGED viewVars
    \/ \E s \in Slots : LoadActivities(s) /\ UNCHANGED viewVars
    \/ \E s \in Slots : LoadLogs(s) /\ UNCHANGED viewVars
    \/ \E s \in Slots : LoadNotes(s) /\ UNCHANGED viewVars
    \/ \E name \in NameInputs : StartAddActivity(name) /\ UNCHANGED viewVars
    \/ \E s \in Slots : ResumeAddActivity(s) /\ UNCHANGED viewVars
    \/ \E a \in ActivityIds, d \in OpDates : StartToggleLog(a, d) /\ UNCHANGED viewVars
    \/ \E s \in Slots : ResumeToggleLog(s) /\ UNCHANGED viewVars
    \/ \E d \in OpDates, text \in TextInputs : StartSaveNote(d, text) /\ UNCHANGED viewVars
    \/ \E s \in Slots : ResumeSaveNote(s) /\ UNCHANGED viewVars
    \/ \E d \in OpDates : StartDeleteNote(d) /\ UNCHANGED viewVars
    \/ \E s \in Slots : ResumeDeleteNote(s) /\ UNCHANGED viewVars
    \/ \E a \in ActivityIds \cup {UnknownId} : StartDeleteActivity(a) /\ UNCHANGED viewVars
    \/ \E s \in Slots : ResumeDeleteActivity(s) /\ UNCHANGED viewVars
    \/ \E a \in ActivityIds \cup {UnknownId}, name \in NameInputs : StartEditActivity(a, name) /\ UNCHANGED viewVars
    \/ \E s \in Slots : ResumeEditActivity(s) /\ UNCHANGED viewVars

Spec == Init /\ [][Next]_vars

---------------------------------------------------------------------------
\* The store when only initialize() is called, any number of calls at a time.

NextInit ==
    \/ StartInitialize /\ UNCHANGED viewVars
    \/ \E s \in Slots : LoadActivities(s) /\ UNCHANGED viewVars
    \/ \E s \in Slots : LoadLogs(s) /\ UNCHANGED viewVars
    \/ \E s \in Slots : LoadNotes(s) /\ UNCHANGED viewVars

SpecInit == Init /\ [][NextInit]_vars

---------------------------------------------------------------------------
\* The store when initialize() and toggleLog() are called one after another,
\* each call completed before the next starts, with the toggles of one pair
\* counted from a moment at which the pair has no Log.

WatchPairs == (1..2) \X {TodayDay, TodayDay - 1}

InitToggle ==
    /\ Constructed(TodayDay * DayLen, MaxToggles + 2)
    /\ watch \in WatchPairs
    /\ toggles = -1
    /\ tz = 0

NextToggle ==
    \/ AllIdle /\ StartInitialize /\ UNCHANGED viewVars
    \/ \E s \in Slots : LoadActivities(s) /\ UNCHANGED viewVars
    \/ \E s \in Slots : LoadLogs(s) /\ UNCHANGED viewVars
    \/ \E s \in Slots : LoadNotes(s) /\ UNCHANGED viewVars
    \/ AllIdle /\ \E a \in ActivityIds, d \in OpDates : StartToggleLog(a, d) /\ UNCHANGED viewVars
    \/ \E s \in Slots : ResumeToggleLog(s) /\ UNCHANGED viewVars

SpecToggle == InitToggle /\ [][NextToggle]_vars

---------------------------------------------------------------------------
\* The view-model (useTracker).  A view-model call runs the store call it
\* wraps and, in the same task in which that call returns, publishes the
\* collections it re-reads from the store.

\* [...this.activities].sort((a, b) => a.order_index - b.order_index): a sort
\* that keeps elements of equal order_index in the order they had
InsertByIndex(sorted, e) ==
    LET k == Cardinality({i \in 1..Len(sorted) : sorted[i].order_index <= e.order_index})
    IN  SubSeq(sorted, 1, k) \o <<e>> \o SubSeq(sorted, k + 1, Len(sorted))

RECURSIVE GetActivities(_)
GetActivities(acts) ==
    IF acts = <<>> THEN <<>>
    ELSE InsertByIndex(GetActivities(SubSeq(acts, 1, Len(acts) - 1)), acts[Len(acts)])

\* [...this.logs], [...this.notes]
GetLogs(lgs) == lgs
GetNotes(nts) == nts

\* a published array after the store has changed objects in place: the copy
\* shares its objects with the store's array
Alias(pub, col) ==
    [i \in 1..Len(pub) |->
        IF \E j \in 1..Len(col) : col[j].id = pub[i].id
        THEN col[CHOOSE j \in 1..Len(col) : col[j].id = pub[i].id]
        ELSE pub[i]]

\* this step ran a store call to its end
Completed ==
    \/ opsLeft' # opsLeft /\ calls' = calls
    \/ \E s \in Slots : calls[s] # Idle /\ calls'[s] = Idle

NoInitPending == \A s \in Slots : calls[s] = Idle \/ calls[s].op # "initialize"

\* the store calls after which the view-model calls setActivities
PublishesActivities(op) ==
    op \in {"initialize", "addActivity", "deleteActivity", "editActivity"}
\* a deleteActivity that leaves the published logs as they are
PublishesLogsButOnDelete(op) == op \in {"initialize", "toggleLog"}
\* the store calls after which the view-model calls setLogs
PublishesLogs(op) == op \in {"initialize", "toggleLog", "deleteActivity"}
\* the store calls after which the view-model calls setNotes
PublishesNotes(op) == op \in {"initialize", "saveNote", "deleteNote"}

\* setActivities / setLogs / setNotes / setIsLoading after the awaited store call
VmPublish ==
    LET op == IF Completed THEN lastReturn'.op ELSE "none"
    IN  /\ pubActivities' =
              IF PublishesActivities(op)
              THEN GetActivities(activities') ELSE Alias(pubActivities, activities')
        /\ pubLogs' =
              IF PublishesLogs(op)
              THEN GetLogs(logs') ELSE pubLogs
        /\ pubNotes' =
              IF PublishesNotes(op)
              THEN GetNotes(notes') ELSE Alias(pubNotes, notes')
        /\ isLoading' = IF op = "initialize" THEN FALSE ELSE isLoading
        /\ UNCHANGED <<viewStartDate, held, navFrom>>

\* a view-model call that makes no store call
VmNoOp ==
    /\ Begin
    /\ UNCHANGED <<storeVars, envVars, dbVars, calls, lastReturn, histVars, viewVars>>

\* names and texts as typed: with blanks around them, or blank altogether
VmNameInputs == { <<" ">>, <<" ", "Run", " ">> }
VmTextInputs == { <<>>, <<" ">>, <<" ", "x">> }

\* the effect that runs once when the hook mounts
VmInitialize == isLoading /\ NoInitPending /\ StartInitialize /\ VmPublish

VmToggleLog(a, d) == ~isLoading /\ StartToggleLog(a, d) /\ VmPublish

VmAddActivity(name) ==
    /\ ~isLoading
    /\ IF ~IsBlank(name) THEN StartAddActivity(Trim(name)) /\ VmPublish ELSE VmNoOp

VmDeleteActivity(a) == ~isLoading /\ StartDeleteActivity(a) /\ VmPublish

VmEditActivity(a, newName) ==
    /\ ~isLoading
    /\ IF ~IsBlank(newName) THEN StartEditActivity(a, Trim(newName)) /\ VmPublish ELSE VmNoOp

VmSaveNote(d, text) ==
    /\ ~isLoading
    /\ IF ~IsBlank(text) THEN StartSaveNote(d, Trim(text)) ELSE StartDeleteNote(d)
    /\ VmPublish

\* logs.some((log) => log.activity_id === activityId && log.logged_date === date)
IsLogged(a, d) ==
    \E i \in 1..Len(pubLogs) : pubLogs[i].activity_id = a /\ pubLogs[i].logged_date = d

NextVm ==
    \/ VmInitialize
    \/ \E s \in Slots : LoadActivities(s) /\ VmPublish
    \/ \E s \in Slots : LoadLogs(s) /\ VmPublish
    \/ \E s \in Slots : LoadNotes(s) /\ VmPublish
    \/ \E name \in VmNameInputs : VmAddActivity(name)
    \/ \E s \in Slots : ResumeAddActivity(s) /\ VmPublish
    \/ \E a \in ActivityIds, d \in OpDates : VmToggleLog(a, d)
    \/ \E s \in Slots : ResumeToggleLog(s) /\ VmPublish
    \/ \E d \in OpDates, text \in VmTextInputs : VmSaveNote(d, text)
    \/ \E s \in Slots : ResumeSaveNote(s) /\ VmPublish
    \/ \E s \in Slots : ResumeDeleteNote(s) /\ VmPublish
    \/ \E a \in ActivityIds \cup {UnknownId} : VmDeleteActivity(a)
    \/ \E s \in Slots : ResumeDeleteActivity(s) /\ VmPublish
    \/ \E a \in ActivityIds \cup {UnknownId}, name \in VmNameInputs : VmEditActivity(a, name)
    \/ \E s \in Slots : ResumeEditActivity(s) /\ VmPublish

SpecVm == Init /\ [][NextVm]_vars

---------------------------------------------------------------------------
\* The store in a session of the application: initialize() is not called
\* again while a call of it is loading; the other calls overlap freely.

NextSession ==
    \/ NoInitPending /\ StartInitialize /\ UNCHANGED viewVars
    \/ \E s \in Slots : LoadActivities(s) /\ UNCHANGED viewVars
    \/ \E s \in Slots : LoadLogs(s) /\ UNCHANGED viewVars
    \/ \E s \in Slots : LoadNotes(s) /\ UNCHANGED viewVars
    \/ \E name \in NameInputs : StartAddActivity(name) /\ UNCHANGED viewVars
    \/ \E s \in Slots : ResumeAddActivity(s) /\ UNCHANGED viewVars
    \/ \E a \in ActivityIds, d \in OpDates : StartToggleLog(a, d) /\ UNCHANGED viewVars
    \/ \E s \in Slots : ResumeToggleLog(s) /\ UNCHANGED viewVars
    \/ \E d \in OpDates, text \in TextInputs : StartSaveNote(d, text) /\ UNCHANGED viewVars
    \/ \E s \in Slots : ResumeSaveNote(s) /\ UNCHANGED viewVars
    \/ \E d \in OpDates : StartDeleteNote(d) /\ UNCHANGED viewVars
    \/ \E s \in Slots : ResumeDeleteNote(s) /\ UNCHANGED viewVars
    \/ \E a \in ActivityIds \cup {UnknownId} : StartDeleteActivity(a) /\ UNCHANGED viewVars
    \/ \E s \in Slots : ResumeDeleteActivity(s) /\ UNCHANGED viewVars
    \/ \E a \in ActivityIds \cup {UnknownId}, name \in NameInputs : StartEditActivity(a, name) /\ UNCHANGED viewVars
    \/ \E s \in Slots : ResumeEditActivity(s) /\ UNCHANGED viewVars

SpecSession == Init /\ [][NextSession]_vars

---------------------------------------------------------------------------
\* The store when initialize(), addActivity() and deleteActivity() are called
\* one after another, with every order_index an Activity has had on record.

TrackHeld ==
    /\ held' = held \cup {activities'[i].order_index : i \in 1..Len(activities')}
    /\ UNCHANGED <<pubVars, viewStartDate, navFrom>>

NextOrder ==
    \/ AllIdle /\ StartInitialize /\ TrackHeld
    \/ \E s \in Slots : LoadActivities(s) /\ TrackHeld
    \/ \E s \in Slots : LoadLogs(s) /\ TrackHeld
    \/ \E s \in Slots : LoadNotes(s) /\ TrackHeld
    \/ AllIdle /\ \E name \in NameInputs : StartAddActivity(name) /\ TrackHeld
    \/ \E s \in Slots : ResumeAddActivity(s) /\ TrackHeld
    \/ AllIdle /\ \E a \in ActivityIds : StartDeleteActivity(a) /\ TrackHeld
    \/ \E s \in Slots : ResumeDeleteActivity(s) /\ TrackHeld

SpecOrder == Init /\ [][NextOrder]_vars

---------------------------------------------------------------------------
\* The date window of the view-model: the hook is mounted at any time of day
\* under any offset from UTC, loads once, and the window is moved while the
\* clock runs.

\* ticks the clock may advance in one session
MaxTicks == 3

\* a bound that lets the window start on the history start date and go on
CanGoBackOrEqual == viewStartDate >= startDate
\* viewStartDate > startDate
CanGoBack == viewStartDate > startDate

\* lastVisibleDate < today
CanGoForward == AddDays(viewStartDate, VISIBLE_DAYS - 1) < StartOfDay(now)

\* an updater that moves back without the clamp
ViewStartAfterBackUnclamped(prev) == SubDays(prev, VISIBLE_DAYS)
\* the updater of goBack
ViewStartAfterBack(prev) ==
    LET newDate == SubDays(prev, VISIBLE_DAYS)
    IN  IF newDate < startDate THEN startDate ELSE newDate

\* an updater that moves on without the clamp
ViewStartAfterForwardUnclamped(prev) == AddDays(prev, VISIBLE_DAYS)
\* the updater of goForward
ViewStartAfterForward(prev) ==
    LET newDate == AddDays(prev, VISIBLE_DAYS)
        maxStartDate == SubDays(StartOfDay(now), VISIBLE_DAYS - 1)
    IN  IF newDate > maxStartDate THEN maxStartDate ELSE newDate

\* the navigation is rendered once the view-model has loaded; a call made
\* while its boolean is false sets no state
GoBack ==
    /\ ~isLoading
    /\ viewStartDate' =
          IF CanGoBack THEN ViewStartAfterBack(viewStartDate) ELSE viewStartDate
    /\ navFrom' = viewStartDate
    /\ Return("goBack", <<>>, Void, FALSE)
    /\ UNCHANGED <<storeVars, envVars, dbVars, calls, opsLeft, histVars, pubVars, held>>

GoForward ==
    /\ ~isLoading
    /\ viewStartDate' =
          IF CanGoForward THEN ViewStartAfterForward(viewStartDate) ELSE viewStartDate
    /\ navFrom' = viewStartDate
    /\ Return("goForward", <<>>, Void, FALSE)
    /\ UNCHANGED <<storeVars, envVars, dbVars, calls, opsLeft, histVars, pubVars, held>>

\* time passes
Tick ==
    /\ now < TodayDay * DayLen + MaxTicks
    /\ now' = now + 1
    /\ UNCHANGED <<storeVars, supabase, watch, tz, dbVars, calls, lastReturn, opsLeft,
                   histVars, viewVars>>

\* mounted in the first or the second half of the day, for one initialize()
InitLoad ==
    /\ \E t \in {TodayDay * DayLen, TodayDay * DayLen + 1} : Constructed(t, 1)
    /\ watch = NoWatch
    /\ toggles = -1
    /\ tz \in TzOffsets

NextLoad ==
    \/ VmInitialize
    \/ \E s \in Slots : LoadActivities(s) /\ VmPublish
    \/ \E s \in Slots : LoadLogs(s) /\ VmPublish
    \/ \E s \in Slots : LoadNotes(s) /\ VmPublish

SpecLoad == InitLoad /\ [][NextLoad]_vars

NextNav ==
    \/ VmInitialize
    \/ \E s \in Slots : LoadActivities(s) /\ VmPublish
    \/ \E s \in Slots : LoadLogs(s) /\ VmPublish
    \/ \E s \in Slots : LoadNotes(s) /\ VmPublish
    \/ GoBack
    \/ GoForward
    \/ Tick

SpecNav == InitLoad /\ [][NextNav]_vars

\* The same session over a remote store that holds Logs of earlier days: of
\* the first day of the calendar, of nine days ago and of today.
HistoryLogDays == {0, TodayDay - (VISIBLE_DAYS + 2), TodayDay}

DbHistoryLogs ==
    {[id |-> d + 1, activity_id |-> 1, logged_date |-> d, created_at |-> 0] :
        d \in HistoryLogDays}

InitHistory ==
    /\ \E t \in {TodayDay * DayLen, TodayDay * DayLen + 1} :
            ConstructedWith(t, 1, DbHistoryLogs)
    /\ watch = NoWatch
    /\ toggles = -1
    /\ tz \in TzOffsets

SpecHistory == InitHistory /\ [][NextNav]_vars

\* The session of a user who, having pressed back once, keeps pressing back:
\* every goBack that would change the window is eventually made.
NextBack ==
    \/ VmInitialize
    \/ \E s \in Slots : LoadActivities(s) /\ VmPublish
    \/ \E s \in Slots : LoadLogs(s) /\ VmPublish
    \/ \E s \in Slots : LoadNotes(s) /\ VmPublish
    \/ lastReturn.op # "goBack" /\ GoForward
    \/ GoBack
    \/ Tick

SpecBack == InitHistory /\ [][NextBack]_vars /\ WF_vars(GoBack)

\* The session of a user who, having pressed forward once, keeps pressing
\* forward.
NextForward ==
    \/ VmInitialize
    \/ \E s \in Slots : LoadActivities(s) /\ VmPublish
    \/ \E s \in Slots : LoadLogs(s) /\ VmPublish
    \/ \E s \in Slots : LoadNotes(s) /\ VmPublish
    \/ lastReturn.op # "goForward" /\ GoBack
    \/ GoForward
    \/ Tick

SpecForward == InitHistory /\ [][NextForward]_vars /\ WF_vars(GoForward)

---------------------------------------------------------------------------
\* The store when its calls are made one after another, each when the one
\* before has returned, every remote request succeeds, and the clock runs.

\* this step reports no remote error
Succeeds == ~lastReturn'.err

NextSync ==
    \/ AllIdle /\ StartInitialize /\ Succeeds /\ UNCHANGED viewVars
    \/ \E s \in Slots : LoadActivities(s) /\ Succeeds /\ UNCHANGED viewVars
    \/ \E s \in Slots : LoadLogs(s) /\ Succeeds /\ UNCHANGED viewVars
    \/ \E s \in Slots : LoadNotes(s) /\ Succeeds /\ UNCHANGED viewVars
    \/ AllIdle /\ \E name \in NameInputs : StartAddActivity(name) /\ Succeeds /\ UNCHANGED viewVars
    \/ \E s \in Slots : ResumeAddActivity(s) /\ Succeeds /\ UNCHANGED viewVars
    \/ AllIdle /\ \E a \in ActivityIds, d \in OpDates : StartToggleLog(a, d) /\ Succeeds /\ UNCHANGED viewVars
    \/ \E s \in Slots : ResumeToggleLog(s) /\ Succeeds /\ UNCHANGED viewVars
    \/ AllIdle /\ \E d \in OpDates, text \in TextInputs : StartSaveNote(d, text) /\ Succeeds /\ UNCHANGED viewVars
    \/ \E s \in Slots : ResumeSaveNote(s) /\ Succeeds /\ UNCHANGED viewVars
    \/ AllIdle /\ \E d \in OpDates : StartDeleteNote(d) /\ Succeeds /\ UNCHANGED viewVars
    \/ \E s \in Slots : ResumeDeleteNote(s) /\ Succeeds /\ UNCHANGED viewVars
    \/ AllIdle /\ \E a \in ActivityIds \cup {UnknownId} : StartDeleteActivity(a) /\ Succeeds /\ UNCHANGED viewVars
    \/ \E s \in Slots : ResumeDeleteActivity(s) /\ Succeeds /\ UNCHANGED viewVars
    \/ AllIdle /\ \E a \in ActivityIds \cup {UnknownId}, name \in NameInputs : StartEditActivity(a, name) /\ Succeeds /\ UNCHANGED viewVars
    \/ \E s \in Slots : ResumeEditActivity(s) /\ Succeeds /\ UNCHANGED viewVars
    \/ Tick

SpecSync == Init /\ [][NextSync]_vars

---------------------------------------------------------------------------
\* Claims.

LogsFor(a, d) == {i \in 1..Len(logs) : logs[i].activity_id = a /\ logs[i].logged_date = d}
NotesFor(d) == {i \in 1..Len(notes) : notes[i].logged_date = d}

\* C1: in every reachable state of the store the logs collection holds at
\* most one Log for any (activity_id, logged_date) pair, also when calls
\* overlap.  The code breaks it: two toggleLog calls for the same pair that
\* both read "no Log" before either insert returns each push a Log, and the
\* sample fallback after a failed notes load draws logs on top of loaded ones.
C1_OneLogPerPair ==
    \A i, j \in 1..Len(logs) :
        (logs[i].activity_id = logs[j].activity_id /\ logs[i].logged_date = logs[j].logged_date)
            => i = j

\* the collection a suspended call has read and will write when it resumes
ReadThenWritten(c) ==
    IF c.op = "addActivity" THEN activities
    ELSE IF c.op = "toggleLog" THEN logs
    ELSE IF c.op = "deleteNote" \/ (c.op = "saveNote" /\ c.pc = "insert") THEN notes
    ELSE <<>>

\* C3: mutations never interleave: while a call is suspended between its read
\* of a collection (existence check, max order_index) and its own write, no
\* other call writes that collection.  The code breaks it: every write after
\* an await lets other calls run in between.
C3_NoInterleavedWrite ==
    [][\A s \in Slots :
          (calls[s] # Idle /\ calls'[s] = calls[s]) =>
              ReadThenWritten(calls[s])' = ReadThenWritten(calls[s])]_vars

\* the change a mutating call makes, seen in the collections acts, lgs, nts
ChangeApplied(c, acts, lgs, nts) ==
    IF c.op = "addActivity" THEN \E i \in 1..Len(acts) : acts[i].id = c.ent.id
    ELSE IF c.op = "toggleLog" /\ c.pc = "insert"
        THEN \E i \in 1..Len(lgs) : lgs[i].activity_id = c.a /\ lgs[i].logged_date = c.d
    ELSE IF c.op = "toggleLog" THEN ~ \E i \in 1..Len(lgs) : lgs[i].id = c.ent.id
    ELSE IF c.op = "saveNote"
        THEN \E i \in 1..Len(nts) : nts[i].logged_date = c.d /\ nts[i].text = c.text
    ELSE IF c.op = "deleteNote" THEN ~ \E i \in 1..Len(nts) : nts[i].logged_date = c.d
    ELSE IF c.op = "deleteActivity"
        THEN /\ ~ \E i \in 1..Len(acts) : acts[i].id = c.a
             /\ ~ \E i \in 1..Len(lgs) : lgs[i].activity_id = c.a
    ELSE IF c.op = "editActivity"
        THEN \E i \in 1..Len(acts) : acts[i].id = c.a /\ acts[i].name = c.name
    ELSE TRUE

\* C4: every mutating operation applies its change to the local collection
\* before it suspends on its remote call, so a read made while the call is
\* pending observes the mutation.  The code does so only for editActivity and
\* for saveNote on an existing Note; the other writes come after the await.
C4_LocalWriteBeforeSuspend ==
    [][\A s \in Slots :
          (calls[s] = Idle /\ calls'[s] # Idle) =>
              ChangeApplied(calls'[s], activities', logs', notes')]_vars

IsSampleActivity(a) == \E i \in 1..Len(SampleActivityNames) : a.name = SampleActivityNames[i]
IsSampleNote(n) == \E i \in 1..Len(SampleNoteSpecs) : n.text = SampleNoteSpecs[i].text
OnlySampleData ==
    /\ \A i \in 1..Len(activities) :
          IsSampleActivity(activities[i]) /\ activities[i].id \notin {r.id : r \in dbActivities}
    /\ \A i \in 1..Len(logs) :
          /\ logs[i].id \notin {r.id : r \in dbLogs}
          /\ \E j \in 1..Len(activities) :
                activities[j].id = logs[i].activity_id /\ IsSampleActivity(activities[j])
    /\ \A i \in 1..Len(notes) :
          IsSampleNote(notes[i]) /\ notes[i].id \notin {r.id : r \in dbNotes}

\* C6: the fallback of initialize() is all-or-nothing: when the load of any
\* of the three tables failed, the collections hold only the sample dataset
\* once initialize() has completed.  The code breaks it: the tables loaded
\* before the failure stay, and the samples are appended to them.
C6_FallbackAllOrNothing ==
    (AllIdle /\ initCompleted /\ lastReturn.op = "initialize" /\ lastReturn.err)
        => OnlySampleData

\* C9: in every reachable state of the store the notes collection holds at
\* most one Note for any logged_date, also when calls overlap.  The code
\* breaks it: two saveNote calls for a date without a Note that overlap on
\* their inserts each push a Note.
C9_OneNotePerDate ==
    \A i, j \in 1..Len(notes) : notes[i].logged_date = notes[j].logged_date => i = j

\* C2: for a pair (a, d) that starts with no Log, after k toggleLog(a, d)
\* calls made one after another there is exactly one Log for the pair when k
\* is odd and none when k is even; the k-th call returned the new Log when it
\* toggled on and null when it toggled off; with no adapter, with a remote
\* call that succeeds and with one that reports an error alike.
C2_ToggleParity ==
    (AllIdle /\ toggles >= 1) =>
        /\ Cardinality(LogsFor(watch[1], watch[2])) = toggles % 2
        /\ (lastReturn.op = "toggleLog" /\ lastReturn.args = watch) =>
              IF toggles % 2 = 1
              THEN /\ lastReturn.val \in SeqToSet(logs)
                   /\ lastReturn.val.activity_id = watch[1]
                   /\ lastReturn.val.logged_date = watch[2]
              ELSE lastReturn.val = Null

\* three toggles of the watched pair are done, the last one with a remote error
C2_ThreeTogglesWithError ==
    /\ AllIdle
    /\ toggles >= 3
    /\ lastReturn.op = "toggleLog"
    /\ lastReturn.args = watch
    /\ lastReturn.err

MutationOps ==
    {"addActivity", "toggleLog", "saveNote", "deleteNote", "deleteActivity", "editActivity"}

\* an entity without its identifier and timestamps
Stripped(e) ==
    [f \in (DOMAIN e) \ {"id", "created_at", "updated_at"} |-> e[f]]

SameEntities(x, y) ==
    /\ Len(x) = Len(y)
    /\ \A i \in 1..Len(x) : Stripped(x[i]) = Stripped(y[i])

\* the collections the suspended call c leaves when its remote call succeeds
OnSuccess(c) ==
    IF c.op = "addActivity"
        THEN <<ActivitiesAfterAdd(activities, Adopt(c.ent, MinNotIn(UsedActivityIds)), FALSE),
               logs, notes>>
    ELSE IF c.op = "toggleLog" /\ c.pc = "delete"
        THEN <<activities, LogsAfterToggleOff(logs, c.ent, FALSE), notes>>
    ELSE IF c.op = "toggleLog"
        THEN <<activities, LogsAfterToggleOn(logs, Adopt(c.ent, MinNotIn(UsedLogIds)), FALSE),
               notes>>
    ELSE IF c.op = "saveNote" /\ c.pc = "insert"
        THEN <<activities, logs,
               NotesAfterCreate(notes, [c.ent EXCEPT !.id = MinNotIn(UsedNoteIds)], FALSE)>>
    ELSE IF c.op = "deleteNote"
        THEN <<activities, logs, NotesAfterDelete(notes, c.d, FALSE)>>
    ELSE IF c.op = "deleteActivity"
        THEN <<ActivitiesAfterDelete(activities, c.a, FALSE),
               LogsAfterDeleteActivity(logs, c.a, FALSE), notes>>
    ELSE <<activities, logs, notes>>

\* C5: when the remote call of a mutation reports an error the call still
\* returns to its caller, and it leaves the local collections with the same
\* entities, apart from identifier and timestamps, as the successful remote
\* call would have left; the local change is not rolled back.
C5_RemoteErrorKeepsLocalChange ==
    [][\A s \in Slots :
          (/\ calls[s] # Idle
           /\ calls[s].op \in MutationOps
           /\ calls'[s] = Idle
           /\ lastReturn'.err) =>
              /\ lastReturn'.op = calls[s].op
              /\ SameEntities(activities', OnSuccess(calls[s])[1])
              /\ SameEntities(logs', OnSuccess(calls[s])[2])
              /\ SameEntities(notes', OnSuccess(calls[s])[3])]_vars

\* a toggle-on whose insert failed has returned the Log it keeps locally
C5_FailedInsertKept ==
    /\ lastReturn.op = "toggleLog"
    /\ lastReturn.err
    /\ lastReturn.val # Null
    /\ lastReturn.val \in SeqToSet(logs)

\* C7: once remote usage is off it stays off: the flag never becomes true
\* again, and no call started from then on suspends on a remote request.
C7_RemoteStaysOff ==
    [][(~useSupabase) =>
          /\ ~useSupabase'
          /\ \A s \in Slots : calls[s] = Idle => calls'[s] = Idle]_vars

\* a client exists, a failed load has turned remote usage off, and a toggleLog
\* call made after that has completed
C7_MutationAfterFallback ==
    /\ supabase
    /\ ~useSupabase
    /\ initCompleted
    /\ lastReturn.op = "toggleLog"

\* C8: initialize() called after an earlier initialize() has completed is a
\* no-op: it issues no remote request and leaves the collections, the start
\* date and the remote-usage flag as they are.
C8_LateInitializeIsNoOp ==
    [][(initCompleted /\ StartInitialize) =>
          /\ UNCHANGED <<activities, logs, notes, startDate, initialized, useSupabase>>
          /\ UNCHANGED <<dbActivities, dbLogs, dbNotes>>
          /\ UNCHANGED calls]_vars

\* a second initialize() has returned on a store that holds data
C8_LateInitializeDone ==
    /\ lateInit
    /\ Remote
    /\ lastReturn.op = "initialize"
    /\ Len(activities) > 0

\* C10 as stated: the store never holds a Note whose text is empty after
\* trimming, because saveNote with such a text behaves as deleteNote.
C10_NoBlankNote ==
    \A i \in 1..Len(notes) : ~IsBlank(notes[i].text)

\* C10, amended: the store's saveNote does not look at the text.  With a text
\* that is empty after trimming it sets the text of the Note the date has, or
\* appends a Note with that text when the date has none, and removes no Note.
C10_BlankTextIsStored ==
    [][/\ \A d \in OpDates, text \in TextInputs :
            (IsBlank(text) /\ StartSaveNote(d, text)) =>
                /\ NoteIndexForDate(notes, d) # 0 =>
                      /\ Len(notes') = Len(notes)
                      /\ notes'[NoteIndexForDate(notes, d)].text = text
                /\ (NoteIndexForDate(notes, d) = 0 /\ Remote) => notes' = notes
                /\ (NoteIndexForDate(notes, d) = 0 /\ ~Remote) =>
                      /\ Len(notes') = Len(notes) + 1
                      /\ SubSeq(notes', 1, Len(notes)) = notes
                      /\ notes'[Len(notes')].logged_date = d
                      /\ notes'[Len(notes')].text = text
       /\ \A s \in Slots :
            (ResumeSaveNote(s) /\ IsBlank(calls[s].text)) =>
                /\ calls[s].pc = "update" => notes' = notes
                /\ calls[s].pc = "insert" =>
                      /\ Len(notes') = Len(notes) + 1
                      /\ SubSeq(notes', 1, Len(notes)) = notes
                      /\ notes'[Len(notes')].logged_date = calls[s].d
                      /\ notes'[Len(notes')].text = calls[s].text]_vars

\* saveNote was called with a blank text and the store holds a blank Note
C10_BlankNoteHeld ==
    /\ lastReturn.op = "saveNote"
    /\ IsBlank(lastReturn.args[2])
    /\ lastReturn.val \in SeqToSet(notes)
    /\ IsBlank(lastReturn.val.text)

\* a text that is empty or holds blanks only
AllBlanks(t) == \A k \in 1..Len(t) : t[k] = " "

\* C11: through the view-model's saveNote, a text that is empty or blank
\* saved for a date without a Note leaves the notes as they are and makes no
\* store request; saved for a date with a Note it removes the Notes of that
\* date and no other Note, and the view-model publishes the result.
C11_VmBlankSaveDeletes ==
    [][/\ \A d \in OpDates, text \in VmTextInputs :
            (AllBlanks(text) /\ VmSaveNote(d, text)) =>
                /\ NotesFor(d) = {} =>
                      (notes' = notes /\ calls' = calls /\ pubNotes' = notes)
                /\ (NotesFor(d) # {} /\ ~Remote) =>
                      /\ notes' = SelectSeq(notes, LAMBDA n : n.logged_date # d)
                      /\ pubNotes' = notes'
                /\ (NotesFor(d) # {} /\ Remote) =>
                      /\ notes' = notes
                      /\ \E s \in Slots :
                            /\ calls[s] = Idle
                            /\ calls'[s] # Idle
                            /\ calls'[s].op = "deleteNote"
                            /\ calls'[s].d = d
       /\ \A s \in Slots :
            (calls[s] # Idle /\ calls[s].op = "deleteNote" /\ calls'[s] = Idle) =>
                /\ notes' = SelectSeq(notes, LAMBDA n : n.logged_date # calls[s].d)
                /\ pubNotes' = notes']_vars

\* a blank save has removed today's sample Note and left the two others
C11_TodaysNoteRemoved ==
    /\ lastReturn.op = "deleteNote"
    /\ lastReturn.args = <<TodayDay>>
    /\ NotesFor(TodayDay) = {}
    /\ Len(notes) = 2
    /\ pubNotes = notes

\* the Notes of nts2 continue those of nts1, with one more at the end
OneNoteAppended(nts1, nts2, d, text) ==
    /\ Len(nts2) = Len(nts1) + 1
    /\ SubSeq(nts2, 1, Len(nts1)) = nts1
    /\ nts2[Len(nts2)].logged_date = d
    /\ nts2[Len(nts2)].text = text

\* C12: saveNote(date, text) with a non-empty text, on a date that has a Note,
\* changes the text and updated_at of that Note and nothing else: its id and
\* created_at, the number of Notes and every other Note stay; on a date with
\* no Note it appends exactly one Note for the date and changes no other.
\* Activities and Logs stay as they are in both cases.
C12_SaveNoteFrame ==
    [][/\ \A d \in OpDates, text \in TextInputs :
            (Len(text) > 0 /\ StartSaveNote(d, text)) =>
                /\ activities' = activities
                /\ logs' = logs
                /\ NotesFor(d) # {} =>
                      /\ Len(notes') = Len(notes)
                      /\ \E i \in NotesFor(d) :
                            /\ notes'[i].text = text
                            /\ notes'[i].id = notes[i].id
                            /\ notes'[i].created_at = notes[i].created_at
                            /\ notes'[i].logged_date = d
                            /\ \A k \in 1..Len(notes) : k # i => notes'[k] = notes[k]
                /\ (NotesFor(d) = {} /\ ~Remote) => OneNoteAppended(notes, notes', d, text)
                /\ (NotesFor(d) = {} /\ Remote) => notes' = notes
       /\ \A s \in Slots :
            (ResumeSaveNote(s) /\ Len(calls[s].text) > 0) =>
                /\ activities' = activities
                /\ logs' = logs
                /\ calls[s].pc = "update" => notes' = notes
                /\ calls[s].pc = "insert" =>
                      OneNoteAppended(notes, notes', calls[s].d, calls[s].text)]_vars

\* saveNote has returned a Note loaded from the remote store, with a new text
\* and a new updated_at
C12_LoadedNoteUpdated ==
    /\ lastReturn.op = "saveNote"
    /\ lastReturn.val \in SeqToSet(notes)
    /\ lastReturn.val.text = <<"x">>
    /\ lastReturn.val.id \in {r.id : r \in DbInitNotes}
    /\ lastReturn.val.created_at # lastReturn.val.updated_at

\* this step appended an Activity on behalf of addActivity
ActivityAdded ==
    /\ Completed
    /\ lastReturn'.op = "addActivity"
    /\ Len(activities') = Len(activities) + 1

\* C13: whenever addActivity appends an Activity, its order_index is greater
\* than the order_index of every Activity the collection holds at that moment,
\* and 0 when the collection is empty.  The code breaks it: the index is
\* computed before the await, so two overlapping calls append the same one.
C13_OrderIndexAboveAll ==
    [][ActivityAdded =>
          /\ \A i \in 1..Len(activities) :
                activities'[Len(activities')].order_index > activities[i].order_index
          /\ activities = <<>> => activities'[Len(activities')].order_index = 0]_vars

C15_DeleteActivityFrame ==
    [][(Completed /\ lastReturn'.op = "deleteActivity") =>
          LET a == lastReturn'.args[1]
          IN  /\ \A i \in 1..Len(activities') : activities'[i].id # a
              /\ \A i \in 1..Len(logs') : logs'[i].activity_id # a
              /\ activities' = SelectSeq(activities, LAMBDA x : x.id # a)
              /\ logs' = SelectSeq(logs, LAMBDA l : l.activity_id # a)
              /\ notes' = notes]_vars

\* the remote delete of the loaded activity failed: its log is still in the
\* remote table, the store holds neither, and the other Activity is there
C15_DeletedDespiteError ==
    /\ lastReturn.op = "deleteActivity"
    /\ lastReturn.err
    /\ \E r \in dbLogs : r.activity_id = lastReturn.args[1]
    /\ logs = <<>>
    /\ Len(activities) = 1

\* C16: once the view-model has loaded, whenever none of its mutations is in
\* flight the activities, logs and notes it has published are the store's
\* collections as the getters return them; so isLogged(a, d) tells whether
\* the store holds a Log for (a, d).
C16_PublishedEqualsStore ==
    (~isLoading /\ AllIdle) =>
        /\ Len(pubActivities) = Len(activities)
        /\ SeqToSet(pubActivities) = SeqToSet(activities)
        /\ OrderedByIndex(pubActivities)
        /\ pubLogs = logs
        /\ pubNotes = notes
        /\ \A a \in ActivityIds \cup {UnknownId}, d \in OpDates :
              IsLogged(a, d) <=> LogsFor(a, d) # {}

\* a toggleLog whose remote insert failed has completed, no call is in
\* flight, and isLogged shows the Log it returned
C16_ToggleOnPublished ==
    /\ ~isLoading
    /\ AllIdle
    /\ lastReturn.op = "toggleLog"
    /\ lastReturn.err
    /\ lastReturn.val # Null
    /\ IsLogged(lastReturn.val.activity_id, lastReturn.val.logged_date)

\* C17: after initialize() has completed the history start date never
\* changes: no toggleLog, addActivity, deleteActivity, editActivity, saveNote,
\* deleteNote or further initialize call modifies it, not even when a Log is
\* created on an earlier date or the earliest Log is removed.
C17_StartDateFixed ==
    [][initCompleted => startDate' = startDate]_vars

\* a Log has been created on a date before the history start date
C17_LogBeforeStartDate ==
    /\ initCompleted
    /\ lastReturn.op = "toggleLog"
    /\ lastReturn.val \in SeqToSet(logs)
    /\ ParseDay(lastReturn.val.logged_date) < startDate

\* the Logs of the store that were loaded from the remote store
LoadedLogDates == {logs[i].logged_date : i \in {k \in 1..Len(logs) : logs[k].id \in {r.id : r \in dbLogs}}}

\* C18: after initialize() has completed the history start date is the date
\* of the earliest Log when Logs of the store were loaded from the remote
\* store, and 30 days before the current date otherwise.  The code breaks it:
\* new Date("yyyy-MM-dd") is midnight UTC, which west of Greenwich falls on
\* the day before; and the start date is set only after the notes load, so a
\* failed notes load leaves loaded Logs with the 30-day start date.
C18_StartDateFromLogs ==
    (initCompleted /\ AllIdle) =>
        FormatDay(startDate) =
            IF LoadedLogDates # {} THEN MinOf(LoadedLogDates)
            ELSE FormatDay(SubDays(now, HistoryDays))

\* C19: in every reachable state of the view-model canGoBack is true exactly
\* when the day of view_start_date is later than the day of the history start
\* date, and canGoForward exactly when the day of view_start_date + 6 days is
\* earlier than today.
C19_NavigationBounds ==
    /\ CanGoBack <=> FormatDay(viewStartDate) > FormatDay(startDate)
    /\ CanGoForward <=> FormatDay(AddDays(viewStartDate, VISIBLE_DAYS - 1)) < Today

\* the window has been moved back until it was clamped to a history start
\* date that is not at midnight: it cannot go back, it can go forward
C19_ClampedAtStart ==
    /\ lastReturn.op = "goBack"
    /\ navFrom > viewStartDate
    /\ viewStartDate = startDate
    /\ StartOfDay(startDate) # startDate
    /\ ~CanGoBack
    /\ CanGoForward

\* C20: in every state reached from the initial window by goBack and
\* goForward the last visible day, view_start_date + 6 days, is not later
\* than today.
C20_LastDayNotAfterToday ==
    FormatDay(AddDays(viewStartDate, VISIBLE_DAYS - 1)) <= Today

\* goForward has moved the window and clamped it to end today
C20_ForwardClamped ==
    /\ lastReturn.op = "goForward"
    /\ navFrom < viewStartDate
    /\ viewStartDate < AddDays(navFrom, VISIBLE_DAYS)
    /\ viewStartDate = SubDays(StartOfDay(now), VISIBLE_DAYS - 1)

---------------------------------------------------------------------------
\* C21: a goBack that changes the window leaves view_start_date not earlier
\* than the history start date, as instants and as calendar days; and when
\* view_start_date is not earlier than the history start date before a goBack
\* or a goForward, it is not earlier after it.
C21_BackStopsAtHistoryStart ==
    [][ /\ (GoBack /\ viewStartDate' # viewStartDate) =>
              /\ viewStartDate' >= startDate'
              /\ FormatDay(viewStartDate') >= FormatDay(startDate')
        /\ ((GoBack \/ GoForward) /\ viewStartDate >= startDate) =>
              viewStartDate' >= startDate'
        /\ ((GoBack \/ GoForward) /\ FormatDay(viewStartDate) >= FormatDay(startDate)) =>
              FormatDay(viewStartDate') >= FormatDay(startDate') ]_vars

\* goBack has moved the window by fewer than seven days, onto the date of the
\* Log of nine days ago
C21_BackClampedToLoadedLog ==
    /\ lastReturn.op = "goBack"
    /\ viewStartDate < navFrom
    /\ SubDays(navFrom, VISIBLE_DAYS) < startDate
    /\ viewStartDate = startDate
    /\ startDate = ParseDay(TodayDay - (VISIBLE_DAYS + 2))

\* C22: once the view-model has loaded with view_start_date not earlier than
\* the history start date, repeated goBack calls bring view_start_date to the
\* history start date, where it then stays, never passing below it; and
\* canGoBack is false exactly when view_start_date is the history start date.
C22_BackReachesHistoryStart ==
    /\ [](( ~isLoading /\ viewStartDate >= startDate) =>
              (~CanGoBack <=> viewStartDate = startDate))
    /\ (~isLoading /\ viewStartDate >= startDate) ~> [](viewStartDate = startDate)

\* from the window that starts on day 34 goBack has gone back to day 6 and
\* then, by six days only, to the history start on day 0
C22_BackEndedOnDayZero ==
    /\ lastReturn.op = "goBack"
    /\ tz = 0
    /\ startDate = ParseDay(0)
    /\ navFrom = AddDays(startDate, VISIBLE_DAYS - 1)
    /\ viewStartDate = startDate
    /\ ~CanGoBack

\* the last day of the visible window
LastVisibleDay == FormatDay(AddDays(viewStartDate, VISIBLE_DAYS - 1))

\* C23: once the view-model has loaded, with the last visible day not later
\* than today, repeated goForward calls bring the window to end today, where
\* it then stays; and canGoForward is false exactly when the last visible day
\* is today.
C23_ForwardReachesToday ==
    /\ []((~isLoading /\ LastVisibleDay <= Today) =>
              (~CanGoForward <=> LastVisibleDay = Today))
    /\ (~isLoading /\ LastVisibleDay <= Today) ~> [](LastVisibleDay = Today)

\* from the history start on day 0 goForward has gone on to day 28 and then,
\* by six days only, to day 34, the window that ends today
C23_ForwardEndedOnToday ==
    /\ lastReturn.op = "goForward"
    /\ tz = 0
    /\ startDate = ParseDay(0)
    /\ navFrom = AddDays(startDate, 4 * VISIBLE_DAYS)
    /\ viewStartDate = SubDays(StartOfDay(now), VISIBLE_DAYS - 1)
    /\ Today = TodayDay
    /\ ~CanGoForward

\* a loop that runs over i = 1..7
VisibleDatesFromNextDay ==
    [k \in 1..VISIBLE_DAYS |-> FormatDay(AddDays(viewStartDate, k))]
\* visibleDates: format(addDays(viewStartDate, i), "yyyy-MM-dd") for i = 0..6
VisibleDates ==
    [k \in 1..VISIBLE_DAYS |-> FormatDay(AddDays(viewStartDate, k - 1))]

\* the scenario's setting: the history starts nine days before today and the
\* window is the initial one, six days before today to today
ScenarioStart ==
    /\ ~isLoading
    /\ FormatDay(startDate) = Today - (VISIBLE_DAYS + 2)
    /\ StartOfDay(viewStartDate) = viewStartDate
    /\ FormatDay(viewStartDate) = Today - (VISIBLE_DAYS - 1)

\* the scenario after its first goBack: the window starts with the history
ScenarioAtHistoryStart ==
    /\ ~isLoading
    /\ FormatDay(startDate) = Today - (VISIBLE_DAYS + 2)
    /\ viewStartDate = startDate

\* C24: with the history start nine days before today and the initial window
\* (history start 2024-01-01, today 2024-01-10, window from 2024-01-04),
\* goForward leaves view_start_date as it is, a goBack moves it to the history
\* start date, a second goBack leaves it there, and the visible window is then
\* the seven days from the history start date on.
C24_NavigationScenario ==
    [][ /\ (ScenarioStart /\ GoForward) => viewStartDate' = viewStartDate
        /\ (ScenarioStart /\ GoBack) =>
              /\ viewStartDate' = startDate
              /\ VisibleDates' =
                    [k \in 1..VISIBLE_DAYS |-> Today - (VISIBLE_DAYS + 2) + k - 1]
        /\ (ScenarioAtHistoryStart /\ GoBack) =>
              /\ viewStartDate' = startDate
              /\ VisibleDates' =
                    [k \in 1..VISIBLE_DAYS |-> Today - (VISIBLE_DAYS + 2) + k - 1] ]_vars

\* the scenario has run: from the window of day 34 a goBack has moved to the
\* history start on day 31, and a second goBack has left the window there
C24_ScenarioDone ==
    /\ lastReturn.op = "goBack"
    /\ FormatDay(startDate) = TodayDay - (VISIBLE_DAYS + 2)
    /\ Today = TodayDay
    /\ navFrom = startDate
    /\ viewStartDate = startDate
    /\ VisibleDates[1] = TodayDay - (VISIBLE_DAYS + 2)
    /\ VisibleDates[VISIBLE_DAYS] = TodayDay - 3

\* C25: a goBack or goForward call made while its navigation boolean is false
\* leaves view_start_date as it is; made while it is true, it moves
\* view_start_date strictly in its direction, by seven days, or by less when
\* seven days would pass the history start date (back) or today - 6 days
\* (forward), and then onto that bound.
C25_MovesBySevenOrToBound ==
    [][ /\ (GoBack /\ ~CanGoBack) => viewStartDate' = viewStartDate
        /\ (GoBack /\ CanGoBack) =>
              /\ viewStartDate' < viewStartDate
              /\ \/ viewStartDate' = viewStartDate - VISIBLE_DAYS * DayLen
                 \/ /\ viewStartDate - VISIBLE_DAYS * DayLen < startDate
                    /\ viewStartDate' = startDate
        /\ (GoForward /\ ~CanGoForward) => viewStartDate' = viewStartDate
        /\ (GoForward /\ CanGoForward) =>
              /\ viewStartDate' > viewStartDate
              /\ \/ viewStartDate' = viewStartDate + VISIBLE_DAYS * DayLen
                 \/ /\ viewStartDate + VISIBLE_DAYS * DayLen >
                          StartOfDay(now) - (VISIBLE_DAYS - 1) * DayLen
                    /\ viewStartDate' = StartOfDay(now) - (VISIBLE_DAYS - 1) * DayLen ]_vars

\* goBack has been called on the window that starts with the history, where
\* canGoBack is false, and has left it in place
C25_BackCalledAtHistoryStart ==
    /\ lastReturn.op = "goBack"
    /\ navFrom = viewStartDate
    /\ viewStartDate = startDate
    /\ ~CanGoBack
    /\ CanGoForward

\* C26: visibleDates is always seven consecutive calendar days in ascending
\* order, the first of them the day of view_start_date, also when the history
\* start date is less than seven days before today; and before any navigation,
\* on the day the view-model was mounted, its last entry is today.
C26_SevenConsecutiveDays ==
    /\ Len(VisibleDates) = 7
    /\ VisibleDates[1] = FormatDay(viewStartDate)
    /\ \A k \in 1..(Len(VisibleDates) - 1) : VisibleDates[k + 1] = VisibleDates[k] + 1
    /\ (lastReturn.op \notin {"goBack", "goForward"} /\ Today = TodayDay) =>
            VisibleDates[Len(VisibleDates)] = Today

\* the history starts today, with the one Log loaded: the window still shows
\* seven days, six of them before the history start
C26_WindowLongerThanHistory ==
    /\ ~isLoading
    /\ Len(logs) = 1
    /\ FormatDay(startDate) = Today
    /\ Len(VisibleDates) = VISIBLE_DAYS
    /\ VisibleDates[1] = Today - 6
    /\ VisibleDates[VISIBLE_DAYS] = Today

\* differenceInDays(a, b): the full days from b to a, truncated towards zero
DifferenceInDays(a, b) ==
    IF a >= b THEN (a - b) \div DayLen ELSE 0 - ((b - a) \div DayLen)

\* allDates: format(subDays(today, i), "yyyy-MM-dd") for i = 0..totalDays - 1
AllDates ==
    LET today == StartOfDay(now)
        totalDays == DifferenceInDays(today, startDate) + 1
    IN  [k \in 1..totalDays |-> FormatDay(SubDays(today, k - 1))]

\* C27: once the view-model has loaded, allDates is every calendar day from
\* today back to the day of the history start date, both included, most recent
\* first, without gap or repeat.  The code breaks it: differenceInDays counts
\* full days from the start date's instant to the start of today, so a start
\* date that is not at midnight (30 days before the time of mounting, or the
\* UTC midnight of a Log's date seen from another offset) loses its own day.
C27_AllDatesBackToHistoryStart ==
    ~isLoading =>
        /\ Len(AllDates) = Today - FormatDay(startDate) + 1
        /\ \A k \in 1..Len(AllDates) : AllDates[k] = Today - (k - 1)
        /\ AllDates[1] = Today
        /\ AllDates[Len(AllDates)] = FormatDay(startDate)

---------------------------------------------------------------------------
\* Reading the store.  An array is seen by everyone who holds it: a getter
\* hands out a new array ([...x]), whose later changes by the caller are the
\* caller's own, where handing out the store's array would share them.

\* handing out the store's own array
SameArray(list) == [list |-> list, shared |-> TRUE, edited |-> FALSE]
\* [...x]: a new array of the same elements
CopyOf(list) == [list |-> list, shared |-> FALSE, edited |-> FALSE]

\* the store's array after a getter has built `handed` from it
ArrayAfterRead(col, handed) == IF handed.shared THEN handed.list ELSE col

\* getActivities()
ReadActivities ==
    /\ Return("getActivities", <<>>, CopyOf(GetActivities(activities)), FALSE)
    /\ activities' = ArrayAfterRead(activities, lastReturn'.val)
    /\ UNCHANGED <<logs, notes, flagVars, envVars, dbVars, calls, opsLeft, histVars>>

\* getLogs()
ReadLogs ==
    /\ Return("getLogs", <<>>, CopyOf(GetLogs(logs)), FALSE)
    /\ logs' = ArrayAfterRead(logs, lastReturn'.val)
    /\ UNCHANGED <<activities, notes, flagVars, envVars, dbVars, calls, opsLeft, histVars>>

\* getNotes()
ReadNotes ==
    /\ Return("getNotes", <<>>, CopyOf(GetNotes(notes)), FALSE)
    /\ notes' = ArrayAfterRead(notes, lastReturn'.val)
    /\ UNCHANGED <<activities, logs, flagVars, envVars, dbVars, calls, opsLeft, histVars>>

\* what a caller does to a list it was handed: pop() or push(list[0])
ListEdits == {"pop", "push"}
Edited(list, e) ==
    IF e = "pop" THEN SubSeq(list, 1, Len(list) - 1) ELSE Append(list, list[1])

\* the caller changes the list the last getter returned, once
CallerEdits(e) ==
    /\ lastReturn.op \in {"getActivities", "getLogs", "getNotes"}
    /\ ~lastReturn.val.edited
    /\ lastReturn.val.list # <<>>
    /\ LET list == Edited(lastReturn.val.list, e)
           shared == lastReturn.val.shared
       IN  /\ lastReturn' = [lastReturn EXCEPT !.val.list = list, !.val.edited = TRUE]
           /\ activities' =
                 IF shared /\ lastReturn.op = "getActivities" THEN list ELSE activities
           /\ logs' = IF shared /\ lastReturn.op = "getLogs" THEN list ELSE logs
           /\ notes' = IF shared /\ lastReturn.op = "getNotes" THEN list ELSE notes
    /\ UNCHANGED <<flagVars, envVars, dbVars, calls, opsLeft, histVars>>

\* calls of a session in which the store is read: one more than elsewhere, so
\* that an addActivity can return after two later ones
ReadOps == MaxOps + 1

InitRead ==
    /\ Constructed(TodayDay * DayLen, ReadOps)
    /\ watch = NoWatch
    /\ toggles = -1
    /\ tz = 0

NextRead ==
    \/ NoInitPending /\ StartInitialize /\ UNCHANGED viewVars
    \/ \E s \in Slots : LoadActivities(s) /\ UNCHANGED viewVars
    \/ \E s \in Slots : LoadLogs(s) /\ UNCHANGED viewVars
    \/ \E s \in Slots : LoadNotes(s) /\ UNCHANGED viewVars
    \/ \E name \in NameInputs : StartAddActivity(name) /\ UNCHANGED viewVars
    \/ \E s \in Slots : ResumeAddActivity(s) /\ UNCHANGED viewVars
    \/ \E a \in ActivityIds : StartDeleteActivity(a) /\ UNCHANGED viewVars
    \/ \E s \in Slots : ResumeDeleteActivity(s) /\ UNCHANGED viewVars
    \/ ReadActivities /\ UNCHANGED viewVars
    \/ ReadLogs /\ UNCHANGED viewVars
    \/ ReadNotes /\ UNCHANGED viewVars
    \/ \E e \in ListEdits : CallerEdits(e) /\ UNCHANGED viewVars

SpecRead == InitRead /\ [][NextRead]_vars

\* the list holds the elements of col, each as often as col does
SameElements(list, col) ==
    /\ Len(list) = Len(col)
    /\ \A i \in 1..Len(col) :
          Cardinality({j \in 1..Len(list) : list[j] = col[i]}) =
          Cardinality({j \in 1..Len(col) : col[j] = col[i]})

Ascending(list) ==
    \A i, j \in 1..Len(list) : i < j => list[i].order_index <= list[j].order_index

\* C28: getActivities() returns every Activity of the store exactly once, in
\* ascending order of order_index; getActivities(), getLogs() and getNotes()
\* leave the store's collections as they are, members and order; and a caller
\* that adds to or removes from a returned list changes neither the store nor
\* what a later read returns.
C28_ReadsLeaveStore ==
    [][ /\ ReadActivities =>
              /\ SameElements(lastReturn'.val.list, activities)
              /\ Ascending(lastReturn'.val.list)
        /\ ReadLogs => lastReturn'.val.list = logs
        /\ ReadNotes => lastReturn'.val.list = notes
        /\ (ReadActivities \/ ReadLogs \/ ReadNotes) => colVars' = colVars
        /\ (\E e \in ListEdits : CallerEdits(e)) =>
              /\ colVars' = colVars
              /\ GetActivities(activities') = GetActivities(activities)
              /\ GetLogs(logs') = GetLogs(logs)
              /\ GetNotes(notes') = GetNotes(notes) ]_vars

\* getActivities() has returned, in ascending order, the Activities of a store
\* that holds them out of order, and the caller has removed one from the list
C28_SortedCopyEdited ==
    /\ lastReturn.op = "getActivities"
    /\ lastReturn.val.edited
    /\ Len(lastReturn.val.list) = Len(activities) - 1
    /\ Ascending(lastReturn.val.list)
    /\ ~Ascending(activities)

---------------------------------------------------------------------------
\* the collection acts with the name of the Activity of id a replaced
Renamed(acts, a, newName) ==
    [k \in 1..Len(acts) |->
        IF acts[k].id = a
        THEN [id |-> acts[k].id, name |-> newName, created_at |-> acts[k].created_at,
              order_index |-> acts[k].order_index]
        ELSE acts[k]]

\* C29: editActivity(id, newName) with the id of an Activity of the store
\* changes the name of that Activity and nothing else in the store: its id,
\* created_at and order_index, the other Activities, the Logs and the Notes
\* stay, also when the remote update returns; with an unknown id it changes
\* nothing in the store and sends no remote request.
C29_EditActivityFrame ==
    [][ /\ \A a \in ActivityIds \cup {UnknownId}, newName \in NameInputs :
              StartEditActivity(a, newName) =>
                  /\ logs' = logs
                  /\ notes' = notes
                  /\ IF a \in ActivityIds
                     THEN activities' = Renamed(activities, a, newName)
                     ELSE /\ activities' = activities
                          /\ calls' = calls
                          /\ dbVars' = dbVars
        /\ \A s \in Slots : ResumeEditActivity(s) => colVars' = colVars ]_vars

\* the Activity loaded from the remote store has been renamed by a call whose
\* remote update failed; it keeps the remote store's stamp and index
C29_LoadedActivityRenamed ==
    /\ lastReturn.op = "editActivity"
    /\ lastReturn.err
    /\ \E k \in 1..Len(activities) :
          /\ activities[k].id = lastReturn.args[1]
          /\ activities[k].name = lastReturn.args[2]
          /\ activities[k].name \in NameInputs
          /\ activities[k].created_at = 0
          /\ activities[k].order_index = 0
          /\ activities[k].name \notin {r.name : r \in dbActivities}

---------------------------------------------------------------------------
\* C30: when toggleLog is only called with the id of an Activity the store
\* holds at the time of the call, every Log of the store belongs to an
\* Activity of the store, also when a toggleLog and a deleteActivity for the
\* same Activity overlap.  The code breaks it: toggleLog appends its Log after
\* the awaited insert without looking at the store again, so a deleteActivity
\* that ran meanwhile leaves the Log without its Activity.
C30_LogsBelongToActivities ==
    \A i \in 1..Len(logs) : logs[i].activity_id \in ActivityIds

---------------------------------------------------------------------------
\* the Activities of the store that initializeSampleData made
SampleActivityPositions == {i \in 1..Len(activities) : IsSampleActivity(activities[i])}

\* C31: when initialize() calls overlap, the store ends as it does after one
\* initialize(): the sample dataset is generated at most once, so every sample
\* Activity and every sample Note is there at most once and the sample
\* Activities have distinct order_index values.  The code breaks it:
\* `initialized` is set only when a call ends, so two calls that both await
\* the load and both see it fail each run initializeSampleData.
C31_SamplesGeneratedOnce ==
    (AllIdle /\ initCompleted) =>
        /\ Cardinality(SampleActivityPositions) <= NumSampleActivities
        /\ \A i, j \in SampleActivityPositions :
              activities[i].order_index = activities[j].order_index => i = j
        /\ \A i, j \in 1..Len(notes) :
              (IsSampleNote(notes[i]) /\ notes[i].text = notes[j].text) => i = j

---------------------------------------------------------------------------
\* a local collection and a remote table hold the same rows
SameRows(col, table) ==
    /\ SeqToSet(col) = table
    /\ Len(col) = Cardinality(table)

---------------------------------------------------------------------------
\* a name with nothing in it, or with a blank at either end
Untrimmed(t) == t = <<>> \/ t[1] = " " \/ t[Len(t)] = " "

\* stored is typed without the blanks around it
TrimmedOf(typed, stored) ==
    /\ ~Untrimmed(stored)
    /\ \E p, q \in 0..Len(typed) :
          /\ p + q <= Len(typed)
          /\ stored = SubSeq(typed, p + 1, Len(typed) - q)
          /\ AllBlanks(SubSeq(typed, 1, p))
          /\ AllBlanks(SubSeq(typed, Len(typed) - q + 1, Len(typed)))

\* the names the store has been given: of its Activities and of the calls
\* that await their remote request
NamesInStore ==
    {activities[i].name : i \in 1..Len(activities)}
        \cup {c.ent.name : c \in {x \in PendingCalls : x.op = "addActivity"}}
        \cup {c.name : c \in {x \in PendingCalls : x.op = "editActivity"}}

\* C33: through the view-model, addActivity(name) and editActivity(id, name)
\* with a name that is blank after trimming make no store call and leave the
\* activities as they are; with any other name the store is given, and
\* stores, the name without the blanks around it; so the store never holds a
\* blank or untrimmed Activity name.
C33_NamesStoredTrimmed ==
    /\ [](\A n \in NamesInStore : ~Untrimmed(n))
    /\ [][ /\ \A name \in VmNameInputs :
                 VmAddActivity(name) =>
                     IF AllBlanks(name)
                     THEN /\ activities' = activities
                          /\ calls' = calls
                          /\ dbVars' = dbVars
                          /\ lastReturn' = lastReturn
                     ELSE /\ \A n \in NamesInStore' \ NamesInStore : TrimmedOf(name, n)
                          /\ Remote =>
                                \E s \in Slots :
                                    /\ calls[s] = Idle
                                    /\ calls'[s] # Idle
                                    /\ calls'[s].op = "addActivity"
                                    /\ TrimmedOf(name, calls'[s].ent.name)
                          /\ ~Remote =>
                                /\ Len(activities') = Len(activities) + 1
                                /\ TrimmedOf(name, activities'[Len(activities')].name)
           /\ \A a \in ActivityIds \cup {UnknownId}, name \in VmNameInputs :
                 VmEditActivity(a, name) =>
                     IF AllBlanks(name)
                     THEN /\ activities' = activities
                          /\ calls' = calls
                          /\ dbVars' = dbVars
                          /\ lastReturn' = lastReturn
                     ELSE /\ \A k \in 1..Len(activities) :
                                /\ activities[k].id = a => TrimmedOf(name, activities'[k].name)
                                /\ activities[k].id # a => activities'[k] = activities[k]
                          /\ Len(activities') = Len(activities) ]_vars

\* the view-model was given " Run " for the Activity loaded from the remote
\* store: the store holds, and the view-model shows, "Run"
C33_PaddedNameStoredTrimmed ==
    /\ lastReturn.op = "editActivity"
    /\ lastReturn.args[2] = <<"Run">>
    /\ \E k \in 1..Len(activities) :
          /\ activities[k].id = lastReturn.args[1]
          /\ activities[k].created_at = 0
          /\ activities[k].name = <<"Run">>
    /\ \E k \in 1..Len(pubActivities) :
          /\ pubActivities[k].id = lastReturn.args[1]
          /\ pubActivities[k].name = <<"Run">>

====
